---- MODULE Spec2Model ----
(***************************************************************************)
(* Model of src/handler.py: the serverless job handler that normalises an  *)
(* input image, composes a ComfyUI workflow from a template, waits for the *)
(* engine (HTTP probe, WebSocket connect), submits the workflow, reads the *)
(* WebSocket until the job's terminal event, collects the history and      *)
(* selects the video to return.                                            *)
(*                                                                         *)
(* Every job (one invocation of handler) is a process with a program       *)
(* counter pc[j]; the engine, the network and the file system are the      *)
(* environment, whose answers are drawn with \E in the actions.            *)
(***************************************************************************)
EXTENDS Integers, Sequences, FiniteSets, TLC

VARIABLES
    job,            \* job[j]: the job's "input" mapping (handler's job_input)
    workflows,      \* the template files on disk: file name -> set of node ids
    pc,             \* pc[j]: the step of handler the job is at
    result,         \* result[j]: what handler returned or raised
    fault,          \* fault[j]: the step whose failure ended the job
    input_dir,      \* files written under COMFYUI_INPUT_DIR
    image_filename, \* image_filename[j]
    workflow_file,  \* workflow_file[j]: the template selected
    warned,         \* warned[j]: logger.warning about the LoRA count was called
    prompt,         \* prompt[j]: the workflow: node id -> inputs written by handler
    http_attempt,   \* http_attempt[j]: loop variable of the probe loop
    attempt,        \* attempt[j]: loop variable of the connect loop
    probes,         \* probes[j]: urlopen(http_url) calls of the probe loop
    connects,       \* connects[j]: ws.connect calls of the connect loop
    slept,          \* slept[j]: seconds spent in time.sleep by the loop
    ws,             \* ws[j]: state of the job's WebSocket
    prompt_id,      \* prompt_id[j]: the id returned by queue_prompt
    queued,         \* the engine's queue: prompt id -> the submission
    last_recv,      \* last_recv[j]: the frame ws.recv() returned last
    history_of,     \* history_of[j]: the prompt id get_history was called with
    videos,         \* videos[j]: output_videos, in iteration order
    order           \* order[j]: the job's steps in the order they first happened

vars == <<job, workflows, pc, result, fault, input_dir, image_filename,
          workflow_file, warned, prompt, http_attempt, attempt, probes,
          connects, slept, ws, prompt_id, queued, last_recv, history_of,
          videos, order>>

-----------------------------------------------------------------------------
(* Bounds of the model *)

\* longest lora_pairs list a job carries
MaxLora == 5
\* most output nodes in a history record
MaxOutputs == 2
\* most entries in a node's 'gifs' list
MaxGifs == 2
\* prompt ids the engine may issue or mention in its events
MaxPromptId == 3

-----------------------------------------------------------------------------
(* Python values *)

NoneVal == "<None>"
\* a truthy value that is not a str (an int, say)
NonStrVal == "<int 5>"
UrlVal == "https://host/img"
LocalVal == "/data/in.png"
B64Val == "AAAA"
DataUriVal == "data:image/jpeg;base64,AAAA"
DataNoCommaVal == "data:AAAA"
BadB64Val == "!!!"

\* bool(v)
Truthy(v) == v \notin {NoneVal, ""}

\* isinstance(v, str)
IsStr(v) == v # NonStrVal /\ v # NoneVal

\* client_id = str(uuid.uuid4()), fixed when the module is loaded
client_id == "client-uuid"

NoResult == [tag |-> "none"]
Returned(v) == [tag |-> "return", value |-> v]
Raised(e) == [tag |-> "raise", exc |-> e]
Exc(type, msg) == [type |-> type, msg |-> msg]
\* no exception raised
NoExc == [type |-> "none"]

IsErrorResponse(r) == r.tag = "return" /\ DOMAIN r.value = {"error"}
IsVideoResponse(r) == r.tag = "return" /\ DOMAIN r.value = {"video"}

-----------------------------------------------------------------------------
(* Input Normalizer *)

\* f"{task_id}_input{ext}"
Filename(task_id, ext) == [task |-> task_id, name |-> "_input", ext |-> ext]

\* os.path.splitext(...)[1] of the two paths of the model
SplitExt(path) == IF path = LocalVal THEN ".png" ELSE ""

\* process_image_path: fetch_ok, exists and write_ok are the answers of the
\* network and the file system.
process_image_path(image_path, task_id, fetch_ok, exists, write_ok) ==
    IF ~IsStr(image_path)
    THEN [exc |-> Exc("ValueError", "image_path must be a string"), wrote |-> {}]
    ELSE IF image_path = UrlVal
    THEN LET ext == IF SplitExt(image_path) = "" THEN ".jpg" ELSE SplitExt(image_path)
             filename == Filename(task_id, ext)
         IN IF fetch_ok /\ write_ok
            THEN [exc |-> NoExc, filename |-> filename, wrote |-> {filename}]
            ELSE [exc |-> Exc("ValueError", "Failed to download image from URL"),
                  wrote |-> {}]
    ELSE IF ~exists
    THEN [exc |-> Exc("ValueError", "Image file not found"), wrote |-> {}]
    ELSE LET ext == IF SplitExt(image_path) = "" THEN ".jpg" ELSE SplitExt(image_path)
             filename == Filename(task_id, ext)
         IN IF write_ok
            THEN [exc |-> NoExc, filename |-> filename, wrote |-> {filename}]
            ELSE [exc |-> Exc("OSError", "copy failed"), wrote |-> {}]

\* process_image_base64
process_image_base64(image_base64, task_id, write_ok) ==
    IF ~IsStr(image_base64)
    THEN [exc |-> Exc("ValueError", "image_base64 must be a string"), wrote |-> {}]
    ELSE IF image_base64 = DataNoCommaVal
    THEN \* split(',', 1)[1] on a string without a comma
         [exc |-> Exc("IndexError", "list index out of range"), wrote |-> {}]
    ELSE LET payload == IF image_base64 = DataUriVal THEN B64Val ELSE image_base64
         IN IF payload # B64Val
            THEN [exc |-> Exc("ValueError", "Failed to decode base64 image"),
                  wrote |-> {}]
            ELSE IF ~write_ok
            THEN [exc |-> Exc("OSError", "open failed"), wrote |-> {}]
            ELSE [exc |-> NoExc, filename |-> Filename(task_id, ".jpg"),
                  wrote |-> {Filename(task_id, ".jpg")}]

-----------------------------------------------------------------------------
(* Workflow Composer *)

NoLoraFile == "/wan22_nolora.json"
OneLoraFile == "/wan22_1lora.json"
TwoLoraFile == "/wan22_2lora.json"
ThreeLoraFile == "/wan22_3lora.json"
WorkflowFiles == {NoLoraFile, OneLoraFile, TwoLoraFile, ThreeLoraFile}

\* lora_pairs[:3]
FirstThree(lora_pairs) == SubSeq(lora_pairs, 1, 3)

\* The template selection: the file, lora_count and lora_pairs after it.
UnclampedSelectWorkflow(lora_pairs) ==
    LET n == Len(lora_pairs)
    IN  IF n = 0 THEN [file |-> NoLoraFile, lora_count |-> 0,
                       lora_pairs |-> lora_pairs, warning |-> FALSE]
        ELSE IF n = 1 THEN [file |-> OneLoraFile, lora_count |-> 1,
                            lora_pairs |-> lora_pairs, warning |-> FALSE]
        ELSE IF n = 2 THEN [file |-> TwoLoraFile, lora_count |-> 2,
                            lora_pairs |-> lora_pairs, warning |-> FALSE]
        ELSE [file |-> ThreeLoraFile, lora_count |-> n,
              lora_pairs |-> lora_pairs, warning |-> n > 3]

SelectWorkflow(lora_pairs) ==
    LET n == Len(lora_pairs)
    IN  IF n = 0 THEN [file |-> NoLoraFile, lora_count |-> 0,
                       lora_pairs |-> lora_pairs, warning |-> FALSE]
        ELSE IF n = 1 THEN [file |-> OneLoraFile, lora_count |-> 1,
                            lora_pairs |-> lora_pairs, warning |-> FALSE]
        ELSE IF n = 2 THEN [file |-> TwoLoraFile, lora_count |-> 2,
                            lora_pairs |-> lora_pairs, warning |-> FALSE]
        ELSE IF n = 3 THEN [file |-> ThreeLoraFile, lora_count |-> 3,
                            lora_pairs |-> lora_pairs, warning |-> FALSE]
        ELSE [file |-> ThreeLoraFile, lora_count |-> 3,
              lora_pairs |-> FirstThree(lora_pairs), warning |-> TRUE]

\* job_input.get("length", 81), job_input.get("steps", 10)
DefaultLength == 81
DefaultSteps == 10

\* job_input.get(key, default)
Get(d, key, default) == IF key \in DOMAIN d THEN d[key] ELSE default

\* p[node]["inputs"][field] = value
SetInput(p, node, field, value) ==
    [p EXCEPT ![node] = (field :> value) @@ @]

\* The direct injections of lines 221-227, in order: the node written, the
\* field, and the job_input key read ("" for a value that cannot fail).
Injections ==
    << [node |-> "260", field |-> "image",      key |-> ""],
       [node |-> "846", field |-> "value",      key |-> ""],
       [node |-> "246", field |-> "value",      key |-> "prompt"],
       [node |-> "835", field |-> "noise_seed", key |-> "seed"],
       [node |-> "830", field |-> "cfg",        key |-> "cfg"],
       [node |-> "849", field |-> "value",      key |-> "width"],
       [node |-> "848", field |-> "value",      key |-> "height"] >>

RequiredNodes == {Injections[i].node : i \in DOMAIN Injections}
StepNode == "834"
LowStepNode == "829"

\* The value injection i writes.
InjectedValue(i, job_input, filename) ==
    IF i = 1 THEN filename
    ELSE IF i = 2 THEN Get(job_input, "length", DefaultLength)
    ELSE job_input[Injections[i].key]

\* Injections i.. applied to p. The right-hand side is evaluated first, then
\* the subscription of prompt: either raises KeyError.
RECURSIVE Inject(_, _, _, _)
Inject(p, i, job_input, filename) ==
    IF i > Len(Injections) THEN [exc |-> NoExc, prompt |-> p]
    ELSE LET inj == Injections[i]
         IN IF inj.key # "" /\ inj.key \notin DOMAIN job_input
            THEN [exc |-> Exc("KeyError", inj.key), where |-> "job_input"]
            ELSE IF inj.node \notin DOMAIN p
            THEN [exc |-> Exc("KeyError", inj.node), where |-> "template"]
            ELSE Inject(SetInput(p, inj.node, inj.field,
                                 InjectedValue(i, job_input, filename)),
                        i + 1, job_input, filename)

\* int(steps*0.6), steps >= 0
LowSteps(steps) == (steps * 6) \div 10

\* A variant that guards the companion node as well.
GuardedApplySteps(p, steps) ==
    LET p1 == IF StepNode \in DOMAIN p
              THEN SetInput(p, StepNode, "steps", steps) ELSE p
    IN  [exc |-> NoExc,
         prompt |-> IF LowStepNode \in DOMAIN p
                    THEN SetInput(p1, LowStepNode, "step", LowSteps(steps)) ELSE p1]

\* Lines 230-235.
ApplySteps(p, steps) ==
    IF StepNode \in DOMAIN p
    THEN IF LowStepNode \in DOMAIN p
         THEN [exc |-> NoExc,
               prompt |-> SetInput(SetInput(p, StepNode, "steps", steps),
                                   LowStepNode, "step", LowSteps(steps))]
         ELSE [exc |-> Exc("KeyError", LowStepNode), where |-> "template"]
    ELSE [exc |-> NoExc, prompt |-> p]

\* lora_node_mapping
lora_node_mapping ==
    [c \in 1..3 |->
       [high |-> SubSeq(<<"282", "339", "340">>, 1, c),
        low  |-> SubSeq(<<"286", "337", "338">>, 1, c)]]

LoraNodes == {"282", "339", "340", "286", "337", "338"}

\* One side (high or low) of pair number i (from 1) of the loop of lines 257-278.
ApplyLoraSide(p, mapping, side, i, lora_pair) ==
    LET name == Get(lora_pair, side, NoneVal)
        weight == Get(lora_pair, IF side = "high" THEN "high_weight" ELSE "low_weight",
                      "1.0")
    IN  IF i <= Len(mapping[side])
        THEN LET node_id == mapping[side][i]
             IN IF node_id \in DOMAIN p /\ Truthy(name)
                THEN SetInput(SetInput(p, node_id, "lora_name", name),
                              node_id, "strength_model", weight)
                ELSE p
        ELSE p

\* for i, lora_pair in enumerate(lora_pairs), from pair i on
RECURSIVE ApplyLoraFrom(_, _, _, _, _)
ApplyLoraFrom(p, mapping, lora_count, lora_pairs, i) ==
    IF i > Len(lora_pairs) THEN p
    ELSE IF i <= lora_count
    THEN ApplyLoraFrom(
            ApplyLoraSide(ApplyLoraSide(p, mapping, "high", i, lora_pairs[i]),
                          mapping, "low", i, lora_pairs[i]),
            mapping, lora_count, lora_pairs, i + 1)
    ELSE ApplyLoraFrom(p, mapping, lora_count, lora_pairs, i + 1)

\* Lines 238-278.
ApplyLora(p, lora_count, lora_pairs) ==
    IF lora_count > 0
    THEN IF lora_count \in DOMAIN lora_node_mapping
         THEN [exc |-> NoExc,
               prompt |-> ApplyLoraFrom(p, lora_node_mapping[lora_count],
                                        lora_count, lora_pairs, 1)]
         ELSE [exc |-> Exc("KeyError", "lora_node_mapping"), where |-> "handler"]
    ELSE [exc |-> NoExc, prompt |-> p]

\* load_workflow: the template as loaded, nothing of it overwritten yet.
load_workflow(nodes) == [n \in nodes |-> <<>>]

\* Lines 193-278: the choice of the template and what is written into it.
\* files is the content of the template directory.
Compose(job_input, filename, files) ==
    LET sel == SelectWorkflow(Get(job_input, "lora_pairs", <<>>))
    IN  IF sel.file \notin DOMAIN files
        THEN [exc |-> Exc("FileNotFoundError", sel.file), where |-> "template",
              sel |-> sel]
        ELSE LET a == Inject(load_workflow(files[sel.file]), 1, job_input, filename)
             IN IF a.exc # NoExc THEN a @@ [sel |-> sel]
                ELSE LET b == ApplySteps(a.prompt,
                                         Get(job_input, "steps", DefaultSteps))
                     IN IF b.exc # NoExc THEN b @@ [sel |-> sel]
                        ELSE ApplyLora(b.prompt, sel.lora_count, sel.lora_pairs)
                             @@ [sel |-> sel]

-----------------------------------------------------------------------------
(* Engine Connector: the pure parts *)

\* max_http_attempts
max_http_attempts == 180
\* max_attempts = int(180/5)
max_attempts == 180 \div 5
\* time.sleep(1) in the probe loop, time.sleep(5) in the connect loop
HttpSleep == 1
WsSleep == 5

NoFrame == [kind |-> "none"]

\* One pass of the loop of get_videos (lines 135-143) on the frame `out`
\* that ws.recv() returned: the loop continues, breaks, or an exception leaves it.
\* This variant takes any terminal event for the job's own.
RecvStepAnyPrompt(out, pid) ==
    IF out.kind # "text" THEN [next |-> "continue"]
    ELSE IF out.json = "invalid"
    THEN [next |-> "raise", exc |-> Exc("JSONDecodeError", "json.loads")]
    ELSE IF out.json = "scalar"
    THEN [next |-> "raise", exc |-> Exc("TypeError", "message['type']")]
    ELSE LET message == out.msg
         IN IF "type" \notin DOMAIN message
            THEN [next |-> "raise", exc |-> Exc("KeyError", "type")]
            ELSE IF message.type = "executing"
            THEN IF "data" \notin DOMAIN message
                 THEN [next |-> "raise", exc |-> Exc("KeyError", "data")]
                 ELSE LET data == message.data
                      IN IF "node" \notin DOMAIN data
                         THEN [next |-> "raise", exc |-> Exc("KeyError", "node")]
                         ELSE IF data.node = NoneVal
                         THEN [next |-> "break"]
                         ELSE [next |-> "continue"]
            ELSE [next |-> "continue"]

\* A variant that passes over every frame it cannot read.
RecvStepTolerant(out, pid) ==
    IF out.kind # "text" \/ out.json # "object" THEN [next |-> "continue"]
    ELSE LET message == out.msg
         IN IF {"type", "data"} \subseteq DOMAIN message
               /\ message.type = "executing"
               /\ {"node", "prompt_id"} \subseteq DOMAIN message.data
               /\ message.data.node = NoneVal
               /\ message.data.prompt_id = pid
            THEN [next |-> "break"]
            ELSE [next |-> "continue"]

RecvStep(out, pid) ==
    IF out.kind # "text" THEN [next |-> "continue"]
    ELSE IF out.json = "invalid"
    THEN [next |-> "raise", exc |-> Exc("JSONDecodeError", "json.loads")]
    ELSE IF out.json = "scalar"
    THEN [next |-> "raise", exc |-> Exc("TypeError", "message['type']")]
    ELSE LET message == out.msg
         IN IF "type" \notin DOMAIN message
            THEN [next |-> "raise", exc |-> Exc("KeyError", "type")]
            ELSE IF message.type = "executing"
            THEN IF "data" \notin DOMAIN message
                 THEN [next |-> "raise", exc |-> Exc("KeyError", "data")]
                 ELSE LET data == message.data
                      IN IF "node" \notin DOMAIN data
                         THEN [next |-> "raise", exc |-> Exc("KeyError", "node")]
                         ELSE IF data.node = NoneVal
                         THEN IF "prompt_id" \notin DOMAIN data
                              THEN [next |-> "raise",
                                    exc |-> Exc("KeyError", "prompt_id")]
                              ELSE IF data.prompt_id = pid
                              THEN [next |-> "break"]
                              ELSE [next |-> "continue"]
                         ELSE [next |-> "continue"]
            ELSE [next |-> "continue"]

\* base64.b64encode(f.read()).decode('utf-8') of the file at fullpath
Encode(fullpath) == [b64 |-> fullpath]

\* Lines 146-155: output_videos as the list of its (node_id, videos_output)
\* items in insertion order, which is the order of history['outputs'].
RECURSIVE CollectVideos(_)
CollectVideos(outputs) ==
    IF outputs = <<>> THEN <<>>
    ELSE LET o == Head(outputs)
             videos_output ==
                 IF "gifs" \in DOMAIN o.output
                 THEN [k \in 1..Len(o.output.gifs) |->
                          Encode(o.output.gifs[k].fullpath)]
                 ELSE <<>>
         IN <<[node_id |-> o.node_id, videos |-> videos_output]>>
            \o CollectVideos(Tail(outputs))

\* A variant that returns the last element of the last non-empty list.
RECURSIVE SelectLastVideo(_)
SelectLastVideo(vs) ==
    IF vs = <<>> THEN [error |-> "No videos found."]
    ELSE LET v == vs[Len(vs)]
         IN IF v.videos # <<>> THEN [video |-> v.videos[Len(v.videos)]]
            ELSE SelectLastVideo(SubSeq(vs, 1, Len(vs) - 1))

\* Lines 317-321: the response selected from videos.
RECURSIVE SelectVideo(_)
SelectVideo(vs) ==
    IF vs = <<>> THEN [error |-> "No videos found."]
    ELSE IF Head(vs).videos # <<>> THEN [video |-> Head(vs).videos[1]]
    ELSE SelectVideo(Tail(vs))

-----------------------------------------------------------------------------
(* The environment: the jobs delivered, the template directory, the frames   *)
(* and the history records the engine may send.                              *)

Absent == "<absent>"

\* The dict with key k bound to v, or the empty dict when the key is absent.
Entry(k, v) == IF v = Absent THEN <<>> ELSE (k :> v)

PathChoices == {Absent, NoneVal, "", NonStrVal, UrlVal, LocalVal}
B64Choices == {Absent, NoneVal, "", NonStrVal, B64Val, DataUriVal,
               DataNoCommaVal, BadB64Val}

\* The fields of a job that handler subscripts (job_input["prompt"], ...).
JobBase == [prompt |-> "a cat", seed |-> 42, cfg |-> 2, width |-> 480,
            height |-> 832]

\* The same without "seed"; with "steps" and "length" given.
KeyVariants ==
    { JobBase,
      [k \in DOMAIN JobBase \ {"seed"} |-> JobBase[k]],
      JobBase @@ [steps |-> 7, length |-> 49] }

HighNames == <<"high1.safetensors", "high2.safetensors", "high3.safetensors",
               "high4.safetensors", "high5.safetensors", "high6.safetensors",
               "high7.safetensors", "high8.safetensors">>
LowNames == <<"low1.safetensors", "low2.safetensors", "low3.safetensors",
              "low4.safetensors", "low5.safetensors", "low6.safetensors",
              "low7.safetensors", "low8.safetensors">>

PairForms == {"weights", "defaults", "nohigh", "emptylow"}

\* The i-th LoRA pair of a job, in one of four forms.
LoraPair(form, i) ==
    IF form = "weights"
    THEN [high |-> HighNames[i], low |-> LowNames[i],
          high_weight |-> "0.8", low_weight |-> "0.5"]
    ELSE IF form = "defaults" THEN [high |-> HighNames[i], low |-> LowNames[i]]
    ELSE IF form = "nohigh" THEN [low |-> LowNames[i]]
    ELSE [high |-> HighNames[i], low |-> ""]

LoraLists == { [i \in 1..n |-> LoraPair(form, i)] : n \in 0..MaxLora, form \in PairForms }

\* The nodes of a template as shipped: the injected nodes, the step nodes and
\* the LoRA nodes of its LoRA count.
StdNodes(file) ==
    RequiredNodes \cup {StepNode, LowStepNode} \cup
    ( IF file = OneLoraFile THEN {"282", "286"}
      ELSE IF file = TwoLoraFile THEN {"282", "286", "339", "337"}
      ELSE IF file = ThreeLoraFile THEN LoraNodes
      ELSE {} )

StdWorkflows == [f \in WorkflowFiles |-> StdNodes(f)]

\* Template directories: as shipped, with some nodes missing from the
\* templates, or with the 3-LoRA file missing.
RemovedSets ==
    {{}} \cup {{n} : n \in RequiredNodes}
         \cup {{StepNode}, {LowStepNode}, {StepNode, LowStepNode}}
         \cup {{"282"}, LoraNodes}

WorkflowDirs ==
    { [f \in WorkflowFiles |-> StdNodes(f) \ removed] : removed \in RemovedSets }
    \cup { [f \in WorkflowFiles \ {ThreeLoraFile} |-> StdNodes(f)] }

\* The jobs of the single-job specification: every combination of the two
\* image fields with no LoRA, and a local image with every LoRA list, key
\* variant and template directory.
Scenarios ==
    { [job |-> Entry("image_path", ip) @@ Entry("image_base64", ib) @@ JobBase,
       workflows |-> StdWorkflows] : ip \in PathChoices, ib \in B64Choices }
    \cup
    { [job |-> [image_path |-> LocalVal, lora_pairs |-> ll] @@ kv,
       workflows |-> wd] : ll \in LoraLists, kv \in KeyVariants, wd \in WorkflowDirs }

\* The jobs of the concurrent specification.
ConcJobs ==
    { [image_base64 |-> B64Val, lora_pairs |-> <<LoraPair("defaults", 1)>>] @@ JobBase }

PromptIds == 1..MaxPromptId

\* The dicts under 'data' of an event.
DataDicts ==
    {<<>>} \cup {[node |-> n] : n \in {NoneVal, "12"}}
           \cup {[prompt_id |-> p] : p \in PromptIds}
           \cup {[node |-> n, prompt_id |-> p] : n \in {NoneVal, "12"}, p \in PromptIds}

\* The JSON objects a text frame may hold.
Messages ==
    {<<>>, [type |-> "status"], [type |-> "executing"]}
    \cup {[type |-> "progress", data |-> d] : d \in {[node |-> "12", prompt_id |-> 1]}}
    \cup {[type |-> "executing", data |-> d] : d \in DataDicts}

\* What ws.recv() may return.
Frames ==
    {[kind |-> "binary"], [kind |-> "text", json |-> "invalid"],
     [kind |-> "text", json |-> "scalar"]}
    \cup {[kind |-> "text", json |-> "object", msg |-> m] : m \in Messages}

OutNames == <<"A", "B", "C", "D">>

\* The 'gifs' lists of output node i: empty, one file, all files, all reversed.
GifLists(i) ==
    {<<>>, <<[fullpath |-> <<i, 1>>]>>,
     [k \in 1..MaxGifs |-> [fullpath |-> <<i, k>>]],
     [k \in 1..MaxGifs |-> [fullpath |-> <<i, MaxGifs + 1 - k>>]]}

\* history['outputs'][node_id] of output node i
NodeOutputs(i) == {<<>>} \cup {[gifs |-> g] : g \in GifLists(i)}

\* history['outputs'], as the list of its items in iteration order
RECURSIVE OutputsOfLen(_)
OutputsOfLen(n) ==
    IF n = 0 THEN {<<>>}
    ELSE { Append(o, [node_id |-> OutNames[n], output |-> x]) :
             o \in OutputsOfLen(n - 1), x \in NodeOutputs(n) }

Histories == UNION { OutputsOfLen(n) : n \in 0..MaxOutputs }

-----------------------------------------------------------------------------
(* Initial states *)

InitJobs(scenario_jobs, dir) ==
    /\ job = scenario_jobs
    /\ workflows = dir
    /\ pc = [j \in DOMAIN scenario_jobs |-> "start"]
    /\ result = [j \in DOMAIN scenario_jobs |-> NoResult]
    /\ fault = [j \in DOMAIN scenario_jobs |-> [step |-> "none"]]
    /\ input_dir = {}
    /\ image_filename = [j \in DOMAIN scenario_jobs |-> NoneVal]
    /\ workflow_file = [j \in DOMAIN scenario_jobs |-> NoneVal]
    /\ warned = [j \in DOMAIN scenario_jobs |-> FALSE]
    /\ prompt = [j \in DOMAIN scenario_jobs |-> <<>>]
    /\ http_attempt = [j \in DOMAIN scenario_jobs |-> 0]
    /\ attempt = [j \in DOMAIN scenario_jobs |-> 0]
    /\ probes = [j \in DOMAIN scenario_jobs |-> 0]
    /\ connects = [j \in DOMAIN scenario_jobs |-> 0]
    /\ slept = [j \in DOMAIN scenario_jobs |-> 0]
    /\ ws = [j \in DOMAIN scenario_jobs |-> "none"]
    /\ prompt_id = [j \in DOMAIN scenario_jobs |-> 0]
    /\ queued = <<>>
    /\ last_recv = [j \in DOMAIN scenario_jobs |-> NoFrame]
    /\ history_of = [j \in DOMAIN scenario_jobs |-> 0]
    /\ videos = [j \in DOMAIN scenario_jobs |-> <<>>]
    /\ order = [j \in DOMAIN scenario_jobs |-> <<>>]

\* One job in the process.
Init == \E s \in Scenarios : InitJobs([j \in {"j1"} |-> s.job], s.workflows)

\* Two jobs running concurrently in the process.
InitConc == \E js \in [{"j1", "j2"} -> ConcJobs] : InitJobs(js, StdWorkflows)

Jobs == DOMAIN pc

-----------------------------------------------------------------------------
(* The steps of handler *)

\* The job ends: handler returns or raises.
End(j, newpc, res, f) ==
    /\ pc' = [pc EXCEPT ![j] = newpc]
    /\ result' = [result EXCEPT ![j] = res]
    /\ fault' = [fault EXCEPT ![j] = f]

Goto(j, newpc) ==
    /\ pc' = [pc EXCEPT ![j] = newpc]
    /\ UNCHANGED <<result, fault>>

\* The steps in evs that the job has not taken before, appended to its order.
RECURSIVE NewSteps(_, _)
NewSteps(seen, evs) ==
    IF evs = <<>> THEN <<>>
    ELSE IF \E k \in DOMAIN seen : seen[k] = Head(evs)
    THEN NewSteps(seen, Tail(evs))
    ELSE <<Head(evs)>> \o NewSteps(Append(seen, Head(evs)), Tail(evs))

Log(j, evs) == order' = [order EXCEPT ![j] = @ \o NewSteps(@, evs)]

\* A validation that takes a key that is present for an image that is given.
ValidateByPresence(job_input) ==
    LET has_path == "image_path" \in DOMAIN job_input
        has_b64 == "image_base64" \in DOMAIN job_input
    IN  IF ~has_path /\ ~has_b64
        THEN [error |-> "Either image_path or image_base64 is required"]
        ELSE IF has_path /\ has_b64 /\ Truthy(job_input["image_path"])
                /\ Truthy(job_input["image_base64"])
        THEN [error |-> "Please provide either image_path or image_base64, not both"]
        ELSE <<>>

\* Lines 170-179: the error response of the validation, or the empty dict.
Validate(job_input) ==
    LET image_path_input == Get(job_input, "image_path", NoneVal)
        image_base64_input == Get(job_input, "image_base64", NoneVal)
    IN  IF ~Truthy(image_path_input) /\ ~Truthy(image_base64_input)
        THEN [error |-> "Either image_path or image_base64 is required"]
        ELSE IF Truthy(image_path_input) /\ Truthy(image_base64_input)
        THEN [error |-> "Please provide either image_path or image_base64, not both"]
        ELSE <<>>

\* Lines 163-179.
HandlerStart(j) ==
    /\ pc[j] = "start"
    /\ LET v == Validate(job[j])
       IN IF v # <<>>
          THEN End(j, "returned", Returned(v), [step |-> "validation"])
          ELSE Goto(j, "normalize")
    /\ UNCHANGED <<job, workflows, input_dir, image_filename, workflow_file,
                   warned, prompt, http_attempt, attempt, probes, connects,
                   slept, ws, prompt_id, queued, last_recv, history_of,
                   videos, order>>

\* The except clause of line 190 left out.
NormalizerOutcomeUncaught(j, r) ==
    IF r.exc # NoExc
    THEN /\ End(j, "raised", Raised(r.exc), [step |-> "input", exc |-> r.exc])
         /\ UNCHANGED <<image_filename, order>>
    ELSE /\ Goto(j, "compose")
         /\ image_filename' = [image_filename EXCEPT ![j] = r.filename]
         /\ Log(j, <<"write_file">>)

\* Lines 181-191 after the normalizer has answered r.
NormalizerOutcome(j, r) ==
    IF r.exc # NoExc
    THEN /\ End(j, "returned",
                Returned([error |-> <<"Failed to process image: ", r.exc.msg>>]),
                [step |-> "input", exc |-> r.exc])
         /\ UNCHANGED <<image_filename, order>>
    ELSE /\ Goto(j, "compose")
         /\ image_filename' = [image_filename EXCEPT ![j] = r.filename]
         /\ Log(j, <<"write_file">>)

\* Lines 181-191: the Input Normalizer; task_id is the job's own.
Normalize(j) ==
    /\ pc[j] = "normalize"
    /\ \E fetch_ok, exists, write_ok \in BOOLEAN :
         LET image_base64_input == Get(job[j], "image_base64", NoneVal)
             image_path_input == Get(job[j], "image_path", NoneVal)
             r == IF Truthy(image_base64_input)
                  THEN process_image_base64(image_base64_input, j, write_ok)
                  ELSE process_image_path(image_path_input, j, fetch_ok,
                                          exists, write_ok)
         IN /\ input_dir' = input_dir \cup r.wrote
            /\ NormalizerOutcome(j, r)
    /\ UNCHANGED <<job, workflows, workflow_file, warned, prompt, http_attempt,
                   attempt, probes, connects, slept, ws, prompt_id, queued,
                   last_recv, history_of, videos>>

\* Lines 193-278: the Workflow Composer.
ComposeWorkflow(j) ==
    /\ pc[j] = "compose"
    /\ LET c == Compose(job[j], image_filename[j], workflows)
       IN /\ workflow_file' = [workflow_file EXCEPT ![j] = c.sel.file]
          /\ warned' = [warned EXCEPT ![j] = c.sel.warning]
          /\ IF c.exc # NoExc
             THEN /\ End(j, "raised", Raised(c.exc),
                         [step |-> "compose", where |-> c.where, exc |-> c.exc])
                  /\ UNCHANGED <<prompt, order>>
             ELSE /\ Goto(j, "http_probe")
                  /\ prompt' = [prompt EXCEPT ![j] = c.prompt]
                  /\ Log(j, <<"compose">>)
    /\ UNCHANGED <<job, workflows, input_dir, image_filename, http_attempt,
                   attempt, probes, connects, slept, ws, prompt_id, queued,
                   last_recv, history_of, videos>>

\* The probe loop is left by break: its loop variable is not read again,
\* and the model keeps no count of a loop that has ended well.
LeaveProbeLoop(j) ==
    /\ http_attempt' = [http_attempt EXCEPT ![j] = 0]
    /\ probes' = [probes EXCEPT ![j] = 0]
    /\ slept' = [slept EXCEPT ![j] = 0]

\* The same for the connect loop.
LeaveConnectLoop(j) ==
    /\ attempt' = [attempt EXCEPT ![j] = 0]
    /\ connects' = [connects EXCEPT ![j] = 0]
    /\ slept' = [slept EXCEPT ![j] = 0]

\* A probe loop that gives up one attempt early.
HttpProbeShort(j) ==
    /\ pc[j] = "http_probe"
    /\ \E ok \in BOOLEAN :
         IF ok
         THEN /\ Goto(j, "ws_connect")
              /\ Log(j, <<"probe", "probe_ok">>)
              /\ LeaveProbeLoop(j)
         ELSE IF http_attempt[j] = max_http_attempts - 2
         THEN /\ End(j, "raised",
                     Raised(Exc("Exception", "Cannot connect to ComfyUI server.")),
                     [step |-> "probe"])
              /\ Log(j, <<"probe">>)
              /\ probes' = [probes EXCEPT ![j] = @ + 1]
              /\ UNCHANGED <<http_attempt, slept>>
         ELSE /\ slept' = [slept EXCEPT ![j] = @ + HttpSleep]
              /\ http_attempt' = [http_attempt EXCEPT ![j] = @ + 1]
              /\ probes' = [probes EXCEPT ![j] = @ + 1]
              /\ Log(j, <<"probe">>)
              /\ UNCHANGED <<pc, result, fault>>
    /\ UNCHANGED <<job, workflows, input_dir, image_filename, workflow_file,
                   warned, prompt, attempt, connects, ws, prompt_id, queued,
                   last_recv, history_of, videos>>

\* Lines 288-298: one iteration of the probe loop.
HttpProbe(j) ==
    /\ pc[j] = "http_probe"
    /\ \E ok \in BOOLEAN :
         IF ok
         THEN /\ Goto(j, "ws_connect")
              /\ Log(j, <<"probe", "probe_ok">>)
              /\ LeaveProbeLoop(j)
         ELSE IF http_attempt[j] = max_http_attempts - 1
         THEN /\ End(j, "raised",
                     Raised(Exc("Exception", "Cannot connect to ComfyUI server.")),
                     [step |-> "probe"])
              /\ Log(j, <<"probe">>)
              /\ probes' = [probes EXCEPT ![j] = @ + 1]
              /\ UNCHANGED <<http_attempt, slept>>
         ELSE /\ slept' = [slept EXCEPT ![j] = @ + HttpSleep]
              /\ http_attempt' = [http_attempt EXCEPT ![j] = @ + 1]
              /\ probes' = [probes EXCEPT ![j] = @ + 1]
              /\ Log(j, <<"probe">>)
              /\ UNCHANGED <<pc, result, fault>>
    /\ UNCHANGED <<job, workflows, input_dir, image_filename, workflow_file,
                   warned, prompt, attempt, connects, ws, prompt_id, queued,
                   last_recv, history_of, videos>>

\* A connect loop that goes back to the probe when a connect fails.
WsConnectReprobe(j) ==
    /\ pc[j] = "ws_connect"
    /\ \E ok \in BOOLEAN :
         IF ok
         THEN /\ Goto(j, "submit")
              /\ ws' = [ws EXCEPT ![j] = "connected"]
              /\ Log(j, <<"connect", "connected">>)
              /\ LeaveConnectLoop(j)
         ELSE IF attempt[j] = max_attempts - 1
         THEN /\ End(j, "raised",
                     Raised(Exc("Exception", "WebSocket connection timeout (3 minutes)")),
                     [step |-> "connect"])
              /\ Log(j, <<"connect">>)
              /\ connects' = [connects EXCEPT ![j] = @ + 1]
              /\ UNCHANGED <<attempt, slept, ws>>
         ELSE /\ slept' = [slept EXCEPT ![j] = @ + WsSleep]
              /\ attempt' = [attempt EXCEPT ![j] = @ + 1]
              /\ connects' = [connects EXCEPT ![j] = @ + 1]
              /\ Log(j, <<"connect">>)
              /\ Goto(j, IF http_attempt[j] < max_http_attempts - 1
                         THEN "http_probe" ELSE "ws_connect")
              /\ UNCHANGED ws
    /\ UNCHANGED <<job, workflows, input_dir, image_filename, workflow_file,
                   warned, prompt, http_attempt, probes, prompt_id, queued,
                   last_recv, history_of, videos>>

\* Lines 300-312: one iteration of the connect loop.
WsConnect(j) ==
    /\ pc[j] = "ws_connect"
    /\ \E ok \in BOOLEAN :
         IF ok
         THEN /\ Goto(j, "submit")
              /\ ws' = [ws EXCEPT ![j] = "connected"]
              /\ Log(j, <<"connect", "connected">>)
              /\ LeaveConnectLoop(j)
         ELSE IF attempt[j] = max_attempts - 1
         THEN /\ End(j, "raised",
                     Raised(Exc("Exception", "WebSocket connection timeout (3 minutes)")),
                     [step |-> "connect"])
              /\ Log(j, <<"connect">>)
              /\ connects' = [connects EXCEPT ![j] = @ + 1]
              /\ UNCHANGED <<attempt, slept, ws>>
         ELSE /\ slept' = [slept EXCEPT ![j] = @ + WsSleep]
              /\ attempt' = [attempt EXCEPT ![j] = @ + 1]
              /\ connects' = [connects EXCEPT ![j] = @ + 1]
              /\ Log(j, <<"connect">>)
              /\ UNCHANGED <<pc, result, fault, ws>>
    /\ UNCHANGED <<job, workflows, input_dir, image_filename, workflow_file,
                   warned, prompt, http_attempt, probes, prompt_id, queued,
                   last_recv, history_of, videos>>


\* The id the engine gives the next submission: ids are never reused.
FreshPromptId == CHOOSE p \in PromptIds \ DOMAIN queued :
                    \A q \in PromptIds \ DOMAIN queued : p <= q

\* A submission made while the WebSocket is still being connected.
SubmitEarly(j) ==
    /\ pc[j] \in {"ws_connect", "submit"}
    /\ PromptIds \ DOMAIN queued # {}
    /\ prompt_id' = [prompt_id EXCEPT ![j] = FreshPromptId]
    /\ queued' = (FreshPromptId :> [job |-> j, client_id |-> client_id,
                                    prompt |-> prompt[j]]) @@ queued
    /\ Goto(j, "recv")
    /\ Log(j, <<"submit">>)
    /\ UNCHANGED <<job, workflows, input_dir, image_filename, workflow_file,
                   warned, prompt, http_attempt, attempt, probes, connects,
                   slept, ws, last_recv, history_of, videos>>

\* Line 132: queue_prompt(prompt); the engine accepts the workflow and returns
\* a new prompt id, or the request fails.
Submit(j) ==
    /\ pc[j] = "submit"
    /\ PromptIds \ DOMAIN queued # {}
    /\ \E ok \in BOOLEAN :
         IF ok
         THEN /\ prompt_id' = [prompt_id EXCEPT ![j] = FreshPromptId]
              /\ queued' = (FreshPromptId :> [job |-> j, client_id |-> client_id,
                                              prompt |-> prompt[j]]) @@ queued
              /\ Goto(j, "recv")
         ELSE /\ End(j, "raised", Raised(Exc("URLError", "queue_prompt")),
                     [step |-> "submit"])
              /\ UNCHANGED <<prompt_id, queued>>
    /\ Log(j, <<"submit">>)
    /\ UNCHANGED <<job, workflows, input_dir, image_filename, workflow_file,
                   warned, prompt, http_attempt, attempt, probes, connects,
                   slept, ws, last_recv, history_of, videos>>

\* Lines 134-143: one pass of the loop: ws.recv() returns a frame, or raises
\* because the connection was closed.
Recv(j) ==
    /\ pc[j] = "recv"
    /\ \/ /\ End(j, "raised",
                 Raised(Exc("WebSocketConnectionClosedException", "recv")),
                 [step |-> "await"])
          /\ UNCHANGED <<last_recv, order>>
       \/ \E out \in Frames :
            LET r == RecvStep(out, prompt_id[j])
            IN /\ last_recv' = [last_recv EXCEPT ![j] = out]
               /\ IF r.next = "continue"
                  THEN UNCHANGED <<pc, result, fault, order>>
                  ELSE IF r.next = "break"
                  THEN Goto(j, "collect") /\ Log(j, <<"terminal">>)
                  ELSE /\ End(j, "raised", Raised(r.exc),
                              [step |-> "await", exc |-> r.exc])
                       /\ UNCHANGED order
    /\ UNCHANGED <<job, workflows, input_dir, image_filename, workflow_file,
                   warned, prompt, http_attempt, attempt, probes, connects,
                   slept, ws, prompt_id, queued, history_of, videos>>

\* Some 'gifs' list of the outputs names a file.
NamesFiles(outputs) ==
    \E k \in DOMAIN outputs :
        "gifs" \in DOMAIN outputs[k].output /\ outputs[k].output.gifs # <<>>

\* Lines 145-157: get_history(prompt_id)[prompt_id] and the reading of the
\* files it names; the request, the lookup or a read may fail.
Collect(j) ==
    /\ pc[j] = "collect"
    /\ history_of' = [history_of EXCEPT ![j] = prompt_id[j]]
    /\ Log(j, <<"history">>)
    /\ \/ /\ \E e \in {Exc("URLError", "get_history"), Exc("KeyError", "prompt_id")} :
               End(j, "raised", Raised(e), [step |-> "collect", exc |-> e])
          /\ UNCHANGED videos
       \/ \E outputs \in Histories, readable \in BOOLEAN :
            IF ~readable /\ NamesFiles(outputs)
            THEN /\ End(j, "raised", Raised(Exc("FileNotFoundError", "fullpath")),
                        [step |-> "collect",
                         exc |-> Exc("FileNotFoundError", "fullpath")])
                 /\ UNCHANGED videos
            ELSE /\ videos' = [videos EXCEPT ![j] = CollectVideos(outputs)]
                 /\ Goto(j, "close")
    /\ UNCHANGED <<job, workflows, input_dir, image_filename, workflow_file,
                   warned, prompt, http_attempt, attempt, probes, connects,
                   slept, ws, prompt_id, queued, last_recv>>

\* Line 314: ws.close()
Close(j) ==
    /\ pc[j] = "close"
    /\ ws' = [ws EXCEPT ![j] = "closed"]
    /\ Goto(j, "select")
    /\ Log(j, <<"close">>)
    /\ UNCHANGED <<job, workflows, input_dir, image_filename, workflow_file,
                   warned, prompt, http_attempt, attempt, probes, connects,
                   slept, prompt_id, queued, last_recv, history_of, videos>>

\* Lines 316-321: the response.
Select(j) ==
    /\ pc[j] = "select"
    /\ LET r == SelectVideo(videos[j])
       IN End(j, "returned", Returned(r),
              [step |-> IF DOMAIN r = {"error"} THEN "no_media" ELSE "none"])
    /\ Log(j, <<"respond">>)
    /\ UNCHANGED <<job, workflows, input_dir, image_filename, workflow_file,
                   warned, prompt, http_attempt, attempt, probes, connects,
                   slept, ws, prompt_id, queued, last_recv, history_of, videos>>

Next ==
    \/ \E j \in Jobs : HandlerStart(j)
    \/ \E j \in Jobs : Normalize(j)
    \/ \E j \in Jobs : ComposeWorkflow(j)
    \/ \E j \in Jobs : HttpProbe(j)
    \/ \E j \in Jobs : WsConnect(j)
    \/ \E j \in Jobs : Submit(j)
    \/ \E j \in Jobs : Recv(j)
    \/ \E j \in Jobs : Collect(j)
    \/ \E j \in Jobs : Close(j)
    \/ \E j \in Jobs : Select(j)

\* One job in the process.
Spec == Init /\ [][Next]_vars

\* Two concurrent jobs in the process, sharing client_id.
SpecConc == InitConc /\ [][Next]_vars

-----------------------------------------------------------------------------
(* Properties *)

Ended(j) == pc[j] \in {"returned", "raised"}

Took(j, step) == \E k \in DOMAIN order[j] : order[j][k] = step

Pos(j, step) == CHOOSE k \in DOMAIN order[j] : order[j][k] = step

\* The job took step b only after step a.
Before(j, a, b) == Took(j, b) => (Took(j, a) /\ Pos(j, a) < Pos(j, b))

\* The engine holds a submission of job j.
Submitted(j) == \E p \in DOMAIN queued : queued[p].job = j

\* The job wrote no file and never touched the engine.
NoSideEffects(j) ==
    /\ \A f \in input_dir : f.task # j
    /\ order[j] = <<>>
    /\ probes[j] = 0 /\ connects[j] = 0 /\ slept[j] = 0
    /\ ws[j] = "none"
    /\ ~Submitted(j)
    /\ history_of[j] = 0

ImagePathOf(j) == Get(job[j], "image_path", NoneVal)
ImageBase64Of(j) == Get(job[j], "image_base64", NoneVal)

\* The job's input has a value (not None) under the key.
Present(j, key) == key \in DOMAIN job[j] /\ job[j][key] # NoneVal

\* C1 as stated: a job whose input has both image_path and image_base64
\* present, or neither, ends with a structured error response (it does not
\* raise), and no file is written and the engine is not touched.
C1_AsStated ==
    \A j \in Jobs :
        (Present(j, "image_path") <=> Present(j, "image_base64"))
        => /\ NoSideEffects(j)
           /\ Ended(j) => (pc[j] = "returned" /\ IsErrorResponse(result[j]))

\* C1, amended: a job whose image_path and image_base64 are both truthy, or
\* both falsy (absent, None or empty), is answered by the validation with a
\* structured error response, without raising; no file is written and the
\* engine is not touched.
C1_BothOrNeitherTruthy ==
    \A j \in Jobs :
        (Truthy(ImagePathOf(j)) <=> Truthy(ImageBase64Of(j)))
        => /\ NoSideEffects(j)
           /\ pc[j] \in {"start", "returned"}
           /\ pc[j] = "returned" =>
                 (IsErrorResponse(result[j]) /\ fault[j].step = "validation")

C1_Witness ==
    \E j \in Jobs :
        /\ Truthy(ImagePathOf(j)) /\ Truthy(ImageBase64Of(j))
        /\ pc[j] = "returned" /\ IsErrorResponse(result[j])

\* C2: the probe loop makes at most 180 attempts; when all 180 fail (179
\* sleeps of one second between them) handler raises, with no structured
\* response, no WebSocket and no submission; an attempt that succeeds ends
\* the probing, and no probe is made outside the probe loop.
C2_ProbeState ==
    \A j \in Jobs :
        /\ probes[j] <= 180
        /\ (probes[j] = 180 => pc[j] = "raised" /\ fault[j].step = "probe")
        /\ fault[j].step = "probe" =>
              /\ result[j].tag = "raise" /\ ~IsErrorResponse(result[j])
              /\ probes[j] = 180 /\ slept[j] = 179
              /\ ws[j] = "none" /\ connects[j] = 0 /\ ~Took(j, "connect")
              /\ ~Submitted(j) /\ ~Took(j, "submit")

C2_ProbeStep ==
    \A j \in Jobs :
        /\ probes'[j] # probes[j] => pc[j] = "http_probe"
        /\ (pc[j] = "http_probe" /\ pc'[j] = "http_probe" /\ probes'[j] # probes[j])
              => probes'[j] = probes[j] + 1 /\ slept'[j] = slept[j] + 1
        /\ (pc[j] = "http_probe" /\ pc'[j] = "ws_connect")
              => probes[j] < 180 /\ Took(j, "probe_ok")'
        /\ (pc[j] \notin {"start", "normalize", "compose", "http_probe"})
              => pc'[j] # "http_probe"

\* C2: the state and the step part above, in every behaviour.
C2_ProbeCeiling == [](C2_ProbeState) /\ [][C2_ProbeStep]_vars

C2_Witness ==
    \E j \in Jobs : fault[j].step = "probe" /\ probes[j] = 180 /\ pc[j] = "raised"

\* The frame is the terminal event of prompt id pid: an "executing" event
\* with a null node and that prompt_id.
Terminal(out, pid) ==
    /\ out.kind = "text" /\ out.json = "object"
    /\ {"type", "data"} \subseteq DOMAIN out.msg
    /\ out.msg.type = "executing"
    /\ {"node", "prompt_id"} \subseteq DOMAIN out.msg.data
    /\ out.msg.data.node = NoneVal
    /\ out.msg.data.prompt_id = pid

\* C3: with concurrent jobs sharing client_id, a job goes from awaiting to
\* collecting only on the terminal event of the prompt id its own submission
\* returned; a terminal event of another prompt id leaves it awaiting, and
\* history is only ever fetched for the job's own prompt id.
C3_OwnIdState ==
    \A j \in Jobs :
        /\ (pc[j] \in {"collect", "close", "select"} \/ history_of[j] # 0)
              => /\ prompt_id[j] \in DOMAIN queued
                 /\ queued[prompt_id[j]].job = j
                 /\ Terminal(last_recv[j], prompt_id[j])
        /\ history_of[j] # 0 => history_of[j] = prompt_id[j]
        /\ \A k \in Jobs : (k # j /\ prompt_id[j] # 0) => prompt_id[k] # prompt_id[j]

C3_OwnIdStep ==
    \A j \in Jobs :
        /\ (pc[j] = "recv" /\ pc'[j] = "collect")
              => Terminal(last_recv'[j], prompt_id[j])
        /\ ( pc[j] = "recv" /\ last_recv'[j] # last_recv[j]
             /\ \E p \in PromptIds : p # prompt_id[j] /\ Terminal(last_recv'[j], p) )
              => pc'[j] = "recv" /\ history_of'[j] = 0

\* C3: the state and the step part above, in every behaviour of the
\* concurrent jobs.
C3_OwnTerminalEventOnly == [](C3_OwnIdState) /\ [][C3_OwnIdStep]_vars

C3_Witness ==
    \E j, k \in Jobs :
        /\ j # k /\ pc[j] = "recv" /\ prompt_id[k] # 0
        /\ Terminal(last_recv[j], prompt_id[k])
        /\ pc[k] \in {"collect", "close", "select", "returned"}

\* C4: the response after collection is the first element of the first
\* non-empty list of videos in iteration order, or the "No videos found."
\* error when every list is empty.
C4_FirstNonEmpty ==
    \A j \in Jobs :
        (pc[j] = "returned" /\ Took(j, "respond")) =>
            LET vs == videos[j]
                nonempty == {i \in DOMAIN vs : vs[i].videos # <<>>}
            IN  IF nonempty = {}
                THEN result[j] = Returned([error |-> "No videos found."])
                ELSE \E i \in nonempty :
                        /\ \A k \in nonempty : i <= k
                        /\ result[j] = Returned([video |-> vs[i].videos[1]])

C4_Witness ==
    \E j \in Jobs :
        /\ pc[j] = "returned" /\ Len(videos[j]) = 2
        /\ videos[j][1].videos = <<>> /\ Len(videos[j][2].videos) = 2
        /\ result[j] = Returned([video |-> videos[j][2].videos[1]])

\* C5: a job that ended gave a structured error response exactly when the
\* validation failed, the Input Normalizer raised (the response carrying the
\* exception's message) or no video was found; a failure of the composer, the
\* probe, the connect, the submission, the wait or the collection is raised.
C5_ErrorMapping ==
    \A j \in Jobs :
        Ended(j) =>
            /\ IsErrorResponse(result[j])
                  <=> fault[j].step \in {"validation", "input", "no_media"}
            /\ fault[j].step = "input"
                  => result[j] = Returned([error |->
                        <<"Failed to process image: ", fault[j].exc.msg>>])
            /\ fault[j].step \in {"compose", "probe", "connect", "submit",
                                  "await", "collect"}
                  => result[j] = Raised(result[j].exc) /\ pc[j] = "raised"
            /\ fault[j].step = "none" => IsVideoResponse(result[j])
            \* by how far the job got
            /\ ~Took(j, "write_file") => IsErrorResponse(result[j])
            /\ (Took(j, "write_file") /\ ~Took(j, "respond"))
                  => result[j].tag = "raise"
            /\ Took(j, "respond") => result[j].tag = "return"

C5_Witness ==
    \E j \in Jobs :
        /\ pc[j] = "returned" /\ fault[j].step = "input"
        /\ fault[j].exc.type = "IndexError"


LoraPairsOf(j) == Get(job[j], "lora_pairs", <<>>)

Min(a, b) == IF a < b THEN a ELSE b

\* The template named after a LoRA count, and the LoRA nodes of pair i.
TemplateNamed(n) ==
    IF n = 0 THEN "/wan22_nolora.json" ELSE IF n = 1 THEN "/wan22_1lora.json"
    ELSE IF n = 2 THEN "/wan22_2lora.json" ELSE "/wan22_3lora.json"
HighNodeOf == <<"282", "339", "340">>
LowNodeOf == <<"286", "337", "338">>

\* The composer ran for job j (it sets workflow_file first of all).
Selected(j) == workflow_file[j] # NoneVal

\* The composer ran for job j and did not raise.
Composed(j) == Took(j, "compose")

\* C6: n LoRA pairs select the template named after min(n, 3); more than 3
\* pairs are a warning and no error; the pairs 1..min(n, 3) are applied to
\* their LoRA nodes, and no node holds anything of a later pair.
C6_LoraTemplateAndClamp ==
    \A j \in Jobs :
        LET pairs == LoraPairsOf(j)
            n == Len(pairs)
            used == Min(n, 3)
        IN  /\ Selected(j) =>
                 /\ workflow_file[j] = TemplateNamed(used)
                 /\ warned[j] <=> n > 3
                 /\ fault[j].step = "compose" => fault[j].where # "handler"
            /\ Composed(j) =>
                 /\ \A i \in 1..used :
                      /\ (HighNodeOf[i] \in DOMAIN prompt[j]
                          /\ "high" \in DOMAIN pairs[i] /\ pairs[i].high # "")
                            => /\ prompt[j][HighNodeOf[i]].lora_name = pairs[i].high
                               /\ prompt[j][HighNodeOf[i]].strength_model =
                                     Get(pairs[i], "high_weight", "1.0")
                      /\ (LowNodeOf[i] \in DOMAIN prompt[j]
                          /\ "low" \in DOMAIN pairs[i] /\ pairs[i].low # "")
                            => /\ prompt[j][LowNodeOf[i]].lora_name = pairs[i].low
                               /\ prompt[j][LowNodeOf[i]].strength_model =
                                     Get(pairs[i], "low_weight", "1.0")
                 /\ \A node \in DOMAIN prompt[j] :
                      "lora_name" \in DOMAIN prompt[j][node] =>
                          \E i \in 1..used :
                              \/ node = HighNodeOf[i] /\ "high" \in DOMAIN pairs[i]
                                 /\ prompt[j][node].lora_name = pairs[i].high
                              \/ node = LowNodeOf[i] /\ "low" \in DOMAIN pairs[i]
                                 /\ prompt[j][node].lora_name = pairs[i].low

C6_Witness ==
    \E j \in Jobs :
        /\ Len(LoraPairsOf(j)) = 5 /\ Composed(j) /\ warned[j]
        /\ workflow_file[j] = "/wan22_3lora.json"
        /\ {"340", "338"} \subseteq DOMAIN prompt[j]
        /\ "lora_name" \in DOMAIN prompt[j]["340"]
        /\ "lora_name" \in DOMAIN prompt[j]["338"]
        /\ prompt[j]["340"].lora_name = "high3.safetensors"
        /\ prompt[j]["338"].lora_name = "low3.safetensors"

\* The frame has the shape of the event the loop looks for: a text frame
\* holding an "executing" event whose data has 'node' and 'prompt_id'.
ExpectedShape(out) ==
    /\ out.kind = "text" /\ out.json = "object"
    /\ {"type", "data"} \subseteq DOMAIN out.msg
    /\ out.msg.type = "executing"
    /\ {"node", "prompt_id"} \subseteq DOMAIN out.msg.data

\* Job j takes a frame off its WebSocket in this step.
Receives(j) == pc[j] = "recv" /\ last_recv'[j] # last_recv[j]

\* C7 as stated: every frame that lacks the expected shape is ignored, and
\* the job keeps reading without raising.
C7_AsStated ==
    [][ \A j \in Jobs :
          (Receives(j) /\ ~ExpectedShape(last_recv'[j]))
              => (pc'[j] = "recv" /\ result'[j] = NoResult) ]_vars

\* A frame the loop passes over: not text; or a JSON object with a 'type'
\* that is not "executing"; or an "executing" event whose data has a non-null
\* 'node'; or one with a null node and another prompt_id.
PassedOver(out, pid) ==
    \/ out.kind = "binary"
    \/ /\ out.kind = "text" /\ out.json = "object" /\ "type" \in DOMAIN out.msg
       /\ \/ out.msg.type # "executing"
          \/ /\ "data" \in DOMAIN out.msg /\ "node" \in DOMAIN out.msg.data
             /\ \/ out.msg.data.node # NoneVal
                \/ /\ "prompt_id" \in DOMAIN out.msg.data
                   /\ out.msg.data.prompt_id # pid

\* A text frame the loop cannot read: not valid JSON; not an object with a
\* 'type'; or an "executing" event without 'data', without 'node', or with a
\* null node and no 'prompt_id'.
Unreadable(out) ==
    /\ out.kind = "text"
    /\ \/ out.json \in {"invalid", "scalar"}
       \/ /\ out.json = "object"
          /\ \/ "type" \notin DOMAIN out.msg
             \/ /\ out.msg.type = "executing"
                /\ \/ "data" \notin DOMAIN out.msg
                   \/ "node" \notin DOMAIN out.msg.data
                   \/ /\ out.msg.data.node = NoneVal
                      /\ "prompt_id" \notin DOMAIN out.msg.data

\* C7, amended: a frame that is passed over leaves the job reading; a text
\* frame that cannot be read makes handler raise; every frame is one of
\* these or the job's terminal event.
C7_IgnoredOrRaised ==
    [][ \A j \in Jobs :
          Receives(j) =>
            LET out == last_recv'[j]
            IN  /\ PassedOver(out, prompt_id[j])
                     => (pc'[j] = "recv" /\ result'[j] = NoResult)
                /\ Unreadable(out)
                     => (pc'[j] = "raised" /\ result'[j].tag = "raise"
                         /\ fault'[j].step = "await")
                /\ \/ PassedOver(out, prompt_id[j])
                   \/ Unreadable(out)
                   \/ Terminal(out, prompt_id[j]) ]_vars

C7_Witness ==
    \E j \in Jobs :
        /\ pc[j] = "raised" /\ fault[j].step = "await"
        /\ last_recv[j] = [kind |-> "text", json |-> "object",
                           msg |-> [type |-> "executing", data |-> [prompt_id |-> 1]]]

\* The steps of handler in program order.
Rank(p) ==
    CASE p = "start" -> 0 [] p = "normalize" -> 1 [] p = "compose" -> 2
      [] p = "http_probe" -> 3 [] p = "ws_connect" -> 4 [] p = "submit" -> 5
      [] p = "recv" -> 6 [] p = "collect" -> 7 [] p = "close" -> 8
      [] p = "select" -> 9 [] OTHER -> 10

\* C8: after a successful probe the connect loop makes at most 36 attempts;
\* when all 36 fail (35 sleeps of five seconds) handler raises and nothing
\* is submitted; no step is ever taken again after a later one: a job only
\* stays in its step (a further attempt of the probe or connect loop, a
\* further frame of the wait), moves on, or ends, and an ended job stays ended.
C8_ConnectState ==
    \A j \in Jobs :
        /\ connects[j] <= 36
        /\ connects[j] > 0 => Took(j, "probe_ok")
        /\ (connects[j] = 36 => pc[j] = "raised" /\ fault[j].step = "connect")
        /\ fault[j].step = "connect" =>
              /\ result[j].tag = "raise" /\ connects[j] = 36 /\ slept[j] = 35 * 5
              /\ ~Submitted(j) /\ ~Took(j, "submit")

C8_NoStepBack ==
    \A j \in Jobs :
        /\ Rank(pc'[j]) >= Rank(pc[j])
        /\ connects'[j] # connects[j] => pc[j] = "ws_connect"
        /\ (pc[j] = "ws_connect" /\ pc'[j] = "ws_connect" /\ connects'[j] # connects[j])
              => connects'[j] = connects[j] + 1 /\ slept'[j] = slept[j] + 5
        /\ (pc[j] = "ws_connect" /\ pc'[j] # pc[j]) => pc'[j] \in {"submit", "raised"}
        /\ (pc[j] = "submit" /\ pc'[j] # pc[j]) => pc'[j] \in {"recv", "raised"}
        /\ (pc[j] = "recv" /\ pc'[j] # pc[j]) => pc'[j] \in {"collect", "raised"}
        /\ (pc[j] = "collect" /\ pc'[j] # pc[j]) => pc'[j] \in {"close", "raised"}
        /\ Ended(j) => (pc'[j] = pc[j] /\ result'[j] = result[j])
        /\ (Submitted(j) => prompt_id'[j] = prompt_id[j])

\* C8: the state and the step part above, in every behaviour.
C8_ConnectCeilingNoRetry == [](C8_ConnectState) /\ [][C8_NoStepBack]_vars

C8_Witness ==
    \E j \in Jobs : fault[j].step = "connect" /\ connects[j] = 36 /\ pc[j] = "raised"

\* The job's request has every key handler subscripts, and its template
\* file exists.
Composable(j) ==
    /\ {"prompt", "seed", "cfg", "width", "height"} \subseteq DOMAIN job[j]
    /\ workflow_file[j] \in DOMAIN workflows

InjectedNodes == {"260", "846", "246", "835", "830", "849", "848"}

RaisedLookup(j) ==
    /\ pc[j] = "raised" /\ fault[j].step = "compose"
    /\ fault[j].exc.type = "KeyError"

\* C9 as stated: the absence of a step-count node ("834" or "829") is never
\* an error, a step node is written only if present, and the absence of any
\* other injected node raises a lookup error.
C9_AsStated ==
    \A j \in Jobs :
        (Selected(j) /\ Composable(j)) =>
            LET nodes == workflows[workflow_file[j]]
            IN  /\ RaisedLookup(j) <=> ~(InjectedNodes \subseteq nodes)
                /\ Composed(j) =>
                      \A n \in {"834", "829"} :
                         (n \in DOMAIN prompt[j] /\ prompt[j][n] # <<>>) => n \in nodes

\* C9, amended: the step nodes are optional together, under the guard of the
\* primary node: without "834" in the template neither step node is written
\* and nothing is raised for them; with "834" both are written, and the
\* absence of "829" raises a lookup error, as the absence of any other
\* injected node does.
C9_StepNodesGuardedByPrimary ==
    \A j \in Jobs :
        (Selected(j) /\ Composable(j)) =>
            LET nodes == workflows[workflow_file[j]]
                steps == Get(job[j], "steps", 10)
            IN  /\ RaisedLookup(j)
                     <=> \/ ~(InjectedNodes \subseteq nodes)
                         \/ ("834" \in nodes /\ "829" \notin nodes)
                /\ RaisedLookup(j) => result[j].tag = "raise"
                /\ ~RaisedLookup(j) => Composed(j)
                /\ Composed(j) =>
                      IF "834" \in nodes
                      THEN /\ prompt[j]["834"] = [steps |-> steps]
                           /\ prompt[j]["829"] = [step |-> (steps * 6) \div 10]
                      ELSE "829" \in nodes => prompt[j]["829"] = <<>>

C9_Witness ==
    \E j \in Jobs :
        /\ RaisedLookup(j) /\ fault[j].exc.msg = "829"
        /\ InjectedNodes \subseteq workflows[workflow_file[j]]

\* C10: within a job the steps are ordered: the input file is written and the
\* workflow composed before the first probe; the WebSocket is connected only
\* after a probe succeeded; the workflow is submitted only after the connect;
\* history is fetched only after the job's own terminal event; the WebSocket
\* is closed only after the collection and before the response.
C10_StepOrder ==
    \A j \in Jobs :
        /\ Before(j, "write_file", "compose")
        /\ Before(j, "write_file", "probe")
        /\ Before(j, "compose", "probe")
        /\ Before(j, "probe_ok", "connect")
        /\ Before(j, "connected", "submit")
        /\ Before(j, "submit", "terminal")
        /\ Before(j, "terminal", "history")
        /\ Before(j, "history", "close")
        /\ Before(j, "close", "respond")
        /\ Took(j, "write_file") => \E f \in input_dir : f.task = j
        /\ Took(j, "probe") => (DOMAIN prompt[j] # {} /\ image_filename[j] \in input_dir)
        /\ Submitted(j) => ws[j] \in {"connected", "closed"}
        /\ history_of[j] # 0 => (Terminal(last_recv[j], prompt_id[j]) /\ Submitted(j))
        /\ ws[j] = "closed" => (history_of[j] # 0 /\ Took(j, "history"))
        /\ Took(j, "respond") => ws[j] = "closed"

C10_Witness ==
    \E j \in Jobs :
        /\ pc[j] = "returned" /\ IsVideoResponse(result[j])
        /\ order[j] = <<"write_file", "compose", "probe", "probe_ok", "connect",
                        "connected", "submit", "terminal", "history", "close",
                        "respond">>

====
